---- MODULE Spec2Model ----
(***************************************************************************)
(* Model of the encrypted-backup decoder of whatsapp-msgstore-web-viewer:  *)
(* the decryption worker (self.onmessage), the decryptDatabase wrapper     *)
(* that drives it from the main thread, and the byte-level header walk of  *)
(* the crypt15 container.  Bytes are naturals 0..255, buffers are          *)
(* sequences of bytes (index i of the code is index i+1 here).             *)
(***************************************************************************)
EXTENDS Integers, Sequences, FiniteSets, TLC

(***************************************************************************)
(* Bounds of the model.                                                    *)
(***************************************************************************)
\* unknown fields placed before field 3 at the top level of a header
MaxTopUnknown == 2
\* unknown sub-fields placed before sub-field 1 inside field 3
MaxSubUnknown == 1
\* iterations a header walk loop may take before it is reported as hung
WalkFuel == 16

(***************************************************************************)
(* Typed arrays.                                                           *)
(***************************************************************************)
Min(a, b) == IF a < b THEN a ELSE b
Max(a, b) == IF a > b THEN a ELSE b

\* relative index of TypedArray.prototype.slice: negative counts from the end
RelIndex(i, n) == IF i < 0 THEN Max(n + i, 0) ELSE Min(i, n)

\* Uint8Array.prototype.slice(a, b): a copy of the clamped range
Slice(s, a, b) ==
    LET f == RelIndex(a, Len(s))
        t == RelIndex(b, Len(s))
    IN  IF f < t THEN SubSeq(s, f + 1, t) ELSE << >>

\* DataView.prototype.getUint8(off) throws a RangeError outside the buffer
InBounds(buf, off) == off >= 0 /\ off < Len(buf)

RECURSIVE SumSeq(_)
SumSeq(s) == IF s = << >> THEN 0 ELSE (s[1] + SumSeq(Tail(s))) % 256

\* String.fromCharCode of every byte: the char codes are the byte values
toBinaryString(bytes) == [i \in 1..Len(bytes) |-> bytes[i] % 65536]

(***************************************************************************)
(* 32-bit integers of the varint loops.  A value is the set of its bit     *)
(* positions 0..31, so that |= is set union and << drops bits above 31.    *)
(***************************************************************************)
BitsOf(b) == {i \in 0..7 : (b \div (2^i)) % 2 = 1}

\* (b & 0x7F) << shift, the shift count taken modulo 32 as JavaScript does
ShiftIn(b, shift) ==
    {i + (shift % 32) : i \in {j \in BitsOf(b) : j < 7 /\ j + (shift % 32) < 32}}

RECURSIVE SumPow(_)
SumPow(S) == IF S = {} THEN 0
             ELSE LET i == CHOOSE x \in S : TRUE IN 2^i + SumPow(S \ {i})

\* the signed value of a 32-bit word
ToInt32(bits) ==
    LET low == SumPow({i \in bits : i < 31})
    IN  IF 31 \in bits THEN (low - 2^30) - 2^30 ELSE low

\* tag & 0x07 and tag >>> 3
WireOf(bits)  == SumPow({i \in bits : i < 3})
FieldOf(bits) == SumPow({i - 3 : i \in {j \in bits : j >= 3}})

(***************************************************************************)
(* The header walk of the crypt15 container (worker lines 110-190, the     *)
(* same text as encryptionService.ts lines 213-290).  An exception thrown  *)
(* inside the walk is caught by the try around it, which ends the walk and *)
(* keeps the IV found so far.                                              *)
(***************************************************************************)
NoIV == [some |-> FALSE, bytes |-> << >>]
SomeIV(b) == [some |-> TRUE, bytes |-> b]

\* one varint loop: reads bytes at off until one has its top bit clear.
\* ok = FALSE when a read falls outside the buffer (the loop throws).
RECURSIVE VarintLoop(_, _, _, _)
VarintLoop(buf, off, shift, acc) ==
    IF ~InBounds(buf, off)
    THEN [ok |-> FALSE, bits |-> acc, off |-> off]
    ELSE LET b  == buf[off + 1]
             nb == acc \cup ShiftIn(b, shift)
         IN  IF b < 128
             THEN [ok |-> TRUE, bits |-> nb, off |-> off + 1]
             ELSE VarintLoop(buf, off + 1, shift + 7, nb)

\* the readVarint closure over protobufBuffer and pbOffset
readVarint(buf, off) == VarintLoop(buf, off, 0, {})

\* while ((pbView.getUint8(pbOffset++) & 0x80) !== 0);
RECURSIVE SkipVarint(_, _)
SkipVarint(buf, off) ==
    IF ~InBounds(buf, off) THEN [ok |-> FALSE, off |-> off]
    ELSE IF buf[off + 1] >= 128 THEN SkipVarint(buf, off + 1)
    ELSE [ok |-> TRUE, off |-> off + 1]

\* what a nested unknown sub-field does to the walk of field 3:
\* a length-delimited one is stepped over, any other wire type breaks.
SubSkipBreaks(sWire) == sWire # 2

\* the loop over the payload of field 3 (c15_iv)
RECURSIVE SubWalk(_, _, _, _)
SubWalk(payload, subOffset, foundIV, fuel) ==
    IF fuel = 0 THEN [found |-> foundIV, threw |-> FALSE, hung |-> TRUE]
    ELSE IF ~(subOffset < Len(payload))
    THEN [found |-> foundIV, threw |-> FALSE, hung |-> FALSE]
    ELSE
      LET t == VarintLoop(payload, subOffset, 0, {}) IN
      IF ~t.ok THEN [found |-> foundIV, threw |-> TRUE, hung |-> FALSE]
      ELSE
        LET sWire  == WireOf(t.bits)
            sField == FieldOf(t.bits)
        IN
        IF sField = 1 /\ sWire = 2
        THEN LET l == VarintLoop(payload, t.off, 0, {}) IN
             IF ~l.ok THEN [found |-> foundIV, threw |-> TRUE, hung |-> FALSE]
             ELSE LET sLen == ToInt32(l.bits)
                      nf   == IF sLen = 16
                              THEN SomeIV(Slice(payload, l.off, l.off + 16))
                              ELSE foundIV
                  IN  SubWalk(payload, l.off + sLen, nf, fuel - 1)
        ELSE IF ~SubSkipBreaks(sWire)
        THEN LET l == VarintLoop(payload, t.off, 0, {}) IN
             IF ~l.ok THEN [found |-> foundIV, threw |-> TRUE, hung |-> FALSE]
             ELSE SubWalk(payload, l.off + ToInt32(l.bits), foundIV, fuel - 1)
        ELSE [found |-> foundIV, threw |-> FALSE, hung |-> FALSE]

\* the field number whose length-delimited payload is walked for the IV
IvFieldNum == 3

\* mutant: every fixed-width field is taken to be 8 bytes wide
FixedWidthAlways8(wireType) == 8

\* bytes stepped over for a fixed-64 (wire type 1) or fixed-32 (5) field
FixedWidth(wireType) == IF wireType = 1 THEN 8 ELSE 4

\* the loop over the header body
RECURSIVE TopWalk(_, _, _, _)
TopWalk(buf, pbOffset, foundIV, fuel) ==
    IF fuel = 0 THEN [found |-> foundIV, hung |-> TRUE]
    ELSE IF ~(pbOffset < Len(buf)) THEN [found |-> foundIV, hung |-> FALSE]
    ELSE
      LET t == readVarint(buf, pbOffset) IN
      IF ~t.ok THEN [found |-> foundIV, hung |-> FALSE]
      ELSE
        LET wireType == WireOf(t.bits)
            fieldNum == FieldOf(t.bits)
        IN
        CASE wireType = 2 ->
               LET l == readVarint(buf, t.off) IN
               IF ~l.ok THEN [found |-> foundIV, hung |-> FALSE]
               ELSE
                 LET len     == ToInt32(l.bits)
                     payload == Slice(buf, l.off, l.off + len)
                     sub     == IF fieldNum = IvFieldNum
                                THEN SubWalk(payload, 0, foundIV, WalkFuel)
                                ELSE [found |-> foundIV, threw |-> FALSE,
                                      hung |-> FALSE]
                 IN  IF sub.hung THEN [found |-> sub.found, hung |-> TRUE]
                     ELSE IF sub.threw
                     THEN [found |-> sub.found, hung |-> FALSE]
                     ELSE TopWalk(buf, l.off + len, sub.found, fuel - 1)
          [] wireType = 0 ->
               LET k == SkipVarint(buf, t.off) IN
               IF ~k.ok THEN [found |-> foundIV, hung |-> FALSE]
               ELSE TopWalk(buf, k.off, foundIV, fuel - 1)
          [] wireType \in {1, 5} ->
               TopWalk(buf, t.off + FixedWidth(wireType), foundIV, fuel - 1)
          [] OTHER -> [found |-> foundIV, hung |-> FALSE]

\* mutant: the byte after the length is always taken to be a flag
FlagSkipAlways(flagByte) == 1

\* byte 1 of the container equal to 1 is a feature flag that takes one byte
FlagSkip(flagByte) == IF flagByte = 1 THEN 1 ELSE 0

\* mutant: the IV found by the walk is ignored
ChooseIvAlwaysFallback(foundIV, view) == toBinaryString(Slice(view, 8, 24))

\* lines 186-190: the IV found by the walk, else bytes 8..23 of the file
ChooseIv(foundIV, view) ==
    IF foundIV.some
    THEN toBinaryString(foundIV.bytes)
    ELSE toBinaryString(Slice(view, 8, 24))

\* lines 192-194: ciphertext and tag are located from the end of the file
CiphertextOf(view, protobufEnd) == Slice(view, protobufEnd, Len(view) - 32)

\* mutant: the tag is taken from the last 16 bytes of the file
TagSliceLast16(view) == Slice(view, Len(view) - 16, Len(view))

TagSlice(view) == Slice(view, Len(view) - 32, Len(view) - 16)

\* lines 95-194 of the worker: the geometry of a crypt15 container.
\* threw = TRUE when one of the two getUint8 reads is out of bounds.
ParseCrypt15(view) ==
    IF ~InBounds(view, 0) \/ ~InBounds(view, 1)
    THEN [threw |-> TRUE]
    ELSE
      LET protobufSize  == view[1]
          flagByte      == view[2]
          protobufStart == 1 + FlagSkip(flagByte)
          protobufEnd   == protobufStart + protobufSize
          protobufBuffer == Slice(view, protobufStart, protobufEnd)
          walk          == TopWalk(protobufBuffer, 0, NoIV, WalkFuel)
      IN  [threw |-> FALSE, hung |-> walk.hung,
           protobufStart |-> protobufStart, protobufEnd |-> protobufEnd,
           protobufBuffer |-> protobufBuffer, foundIV |-> walk.found,
           iv |-> ChooseIv(walk.found, view),
           ciphertext |-> CiphertextOf(view, protobufEnd),
           tag |-> TagSlice(view)]

(***************************************************************************)
(* The library primitives the decoder calls.  They are modelled by small   *)
(* deterministic functions with the properties the decoder relies on: the  *)
(* keyed hash depends on key and message, the GCM tag depends on key, IV   *)
(* and every ciphertext byte, decryption is the inverse of encryption for  *)
(* one (key, IV), and inflate accepts only a stream with a zlib header.    *)
(***************************************************************************)
\* forge.hmac with sha256: 32 bytes
\* (arithmetic modulo the prime 251 keeps a chain of two hashes dependent
\* on the key and on the message of the first)
HmacSha256(key, msg) ==
    LET c == (17 * SumSeq(key) + 31 * SumSeq(msg) + 7 * Len(msg) + 1) % 251
    IN  [i \in 1..32 |-> (c * (i + 1)) % 251]

\* "backup encryption" followed by the byte 0x01
BackupEncryptionMsg ==
    <<98, 97, 99, 107, 117, 112, 32, 101, 110, 99, 114, 121, 112, 116, 105,
      111, 110, 1>>

\* mutant: the first hash is keyed by the root key and fed the zeros
deriveCrypt15KeySwapped(rootKey) ==
    LET nullSeed   == [i \in 1..32 |-> 0]
        privateKey == HmacSha256(toBinaryString(rootKey), nullSeed)
    IN  HmacSha256(privateKey, BackupEncryptionMsg)

\* deriveCrypt15Key: two chained keyed hashes, the first keyed by 32 zeros
deriveCrypt15Key(rootKey) ==
    LET nullSeed   == [i \in 1..32 |-> 0]
        privateKey == HmacSha256(nullSeed, toBinaryString(rootKey))
    IN  HmacSha256(privateKey, BackupEncryptionMsg)

\* the counter-mode pad of AES-GCM for one key and IV
GcmPad(key, civ) == (SumSeq(key) + 3 * SumSeq(civ) + Len(civ)) % 256

\* decipher.update + decipher.output.getBytes(): the decrypted bytes
GcmDecrypt(key, civ, ct) ==
    [i \in 1..Len(ct) |-> (ct[i] + 512 - GcmPad(key, civ) - (i % 256)) % 256]

\* the 16-byte tag the cipher computes over the ciphertext
GcmTag(key, civ, ct) ==
    [j \in 1..16 |-> (SumSeq(key) + 5 * SumSeq(civ) + 7 * Len(civ)
                      + SumSeq(ct) + 11 * Len(ct) + j) % 256]

\* decipher.finish() with a tag supplied: the tags are compared
GcmFinish(key, civ, ct, t) == t = GcmTag(key, civ, ct)

\* pako.inflate: throws unless the input starts with a zlib header
InflateOk(data) ==
    Len(data) >= 2 /\ data[1] = 120 /\ (data[1] * 256 + data[2]) % 31 = 0
Inflate(data) == SubSeq(data, 3, Len(data))

(***************************************************************************)
(* CRYPT_CONFIG: the fixed offsets of the legacy formats.                  *)
(***************************************************************************)
CRYPT_CONFIG ==
    [crypt12 |-> [ivOffset |-> 51, ivLength |-> 16, dbStartOffset |-> 67],
     crypt14 |-> [ivOffset |-> 67, ivLength |-> 16, dbStartOffset |-> 190],
     crypt15 |-> [ivOffset |-> 8,  ivLength |-> 16, dbStartOffset |-> 122]]

\* lines 225-232 of the worker: IV and ciphertext of a legacy container
LegacyIv(type, view) ==
    toBinaryString(Slice(view, CRYPT_CONFIG[type].ivOffset,
                   CRYPT_CONFIG[type].ivOffset + CRYPT_CONFIG[type].ivLength))

\* mutant: the 20-byte footer is cut from the other legacy format
LegacyCiphertextSwapped(type, view) ==
    IF type = "crypt12"
    THEN Slice(view, CRYPT_CONFIG[type].dbStartOffset, Len(view))
    ELSE Slice(view, CRYPT_CONFIG[type].dbStartOffset, Len(view) - 20)

\* lines 227-232: crypt14 runs to the end, crypt12 stops before its footer
LegacyCiphertext(type, view) ==
    IF type = "crypt14"
    THEN Slice(view, CRYPT_CONFIG[type].dbStartOffset, Len(view))
    ELSE Slice(view, CRYPT_CONFIG[type].dbStartOffset, Len(view) - 20)

(***************************************************************************)
(* extractKey: the key normalizer (encryptionService.ts lines 55-118, the  *)
(* same text as part_002 lines 138-201).  A result is the raw key or the   *)
(* message of the error the call fails with.                               *)
(***************************************************************************)
KeyOk(raw)  == [ok |-> TRUE, raw |-> raw, error |-> ""]
KeyErr(msg) == [ok |-> FALSE, raw |-> << >>, error |-> msg]

\* new TextDecoder().decode: an ASCII byte is the character of that code;
\* a byte that is not ASCII is shown as the replacement character here
\* (multi-byte sequences are not assembled: none of them is a hex digit)
TextDecode(buf) == [i \in 1..Len(buf) |-> IF buf[i] < 128 THEN buf[i] ELSE 65533]

\* String.prototype.trim: white space is dropped at both ends
IsSpace(c) == c \in {9, 10, 11, 12, 13, 32}
RECURSIVE TrimStart(_)
TrimStart(t) == IF t # << >> /\ IsSpace(t[1]) THEN TrimStart(Tail(t)) ELSE t
RECURSIVE TrimEnd(_)
TrimEnd(t) ==
    IF t # << >> /\ IsSpace(t[Len(t)]) THEN TrimEnd(SubSeq(t, 1, Len(t) - 1)) ELSE t
Trim(t) == TrimEnd(TrimStart(t))

\* /^[0-9a-fA-F]+$/
IsHexChar(c) == c \in (48..57) \cup (97..102) \cup (65..70)
IsHexText(t) == t # << >> /\ \A i \in DOMAIN t : IsHexChar(t[i])

\* mutant: the upper-case digits are valued like the characters after '9'
HexValNoUpper(c) == IF c >= 97 THEN c - 87 ELSE c - 48

\* the value parseInt(_, 16) gives one hex digit
HexVal(c) == IF c >= 97 THEN c - 87 ELSE IF c >= 65 THEN c - 55 ELSE c - 48

\* text.match(/.{1,2}/g).map(b => parseInt(b, 16)): one byte per two chars
\* (a last single char makes a byte of its own)
ParseHexKey(text) ==
    [i \in 1..((Len(text) + 1) \div 2) |->
        IF 2 * i <= Len(text)
        THEN 16 * HexVal(text[2 * i - 1]) + HexVal(text[2 * i])
        ELSE HexVal(text[2 * i - 1])]

\* view.byteLength > 4 && view.getUint32(0) === 0xaced0005
HasMagic(buf) ==
    Len(buf) > 4 /\ SubSeq(buf, 1, 4) = <<172, 237, 0, 5>>

\* uint8[i] === 0 && uint8[i+1] === 0 && uint8[i+2] === 0 && uint8[i+3] === 32
\* (an index outside the array reads undefined, which equals neither)
MarkerAt(buf, i) ==
    /\ i >= 0 /\ i + 4 <= Len(buf)
    /\ SubSeq(buf, i + 1, i + 4) = <<0, 0, 0, 32>>

\* mutant: the scan runs to the last place a marker fits
MarkerLimitAnywhere(n) == n - 4

\* the last index the marker scan looks at: uint8.length - 36
MarkerLimit(n) == n - 36

\* the for loop of lines 84-89: the first marker index, or -1
KeyStart(buf) ==
    LET hits == {i \in 0..MarkerLimit(Len(buf)) : MarkerAt(buf, i)}
    IN  IF hits = {} THEN -1
        ELSE 4 + CHOOSE i \in hits : \A j \in hits : i <= j

\* mutant: the last bytes are taken whatever the length
CanTakeLastAlways(buf) == TRUE

\* keyFileBuffer.byteLength >= 32 (line 93)
CanTakeLast(buf) == Len(buf) >= 32

\* lines 75-102: the serialized-object shapes, and the two errors thrown
\* inside the try
SerializedKey(buf) ==
    IF HasMagic(buf)
    THEN IF Len(buf) = 59
         THEN KeyOk(Slice(buf, 27, 59))
         ELSE IF KeyStart(buf) # -1
         THEN KeyOk(Slice(buf, KeyStart(buf), KeyStart(buf) + 32))
         ELSE IF CanTakeLast(buf)
         THEN KeyOk(Slice(buf, Len(buf) - 32, Len(buf)))
         ELSE KeyErr("Key file too small")
    ELSE KeyErr("Unknown key format")

\* lines 65-103: hex text, else a serialized object
TryParse(buf) ==
    LET text == Trim(TextDecode(buf)) IN
    IF Len(text) = 64 /\ IsHexText(text)
    THEN KeyOk(ParseHexKey(text))
    ELSE SerializedKey(buf)

\* lines 104-106: whatever was thrown inside the try is replaced
Rethrow(r) == IF r.ok THEN r ELSE KeyErr("Failed to parse key file")

\* crypto.subtle.importKey('raw', keyData, 'AES-GCM'): an AES key is 16, 24
\* or 32 bytes long, any other length rejects
ImportKey(r) ==
    IF r.ok /\ Len(r.raw) \notin {16, 24, 32}
    THEN KeyErr("importKey: DataError") ELSE r

\* mutant: no buffer is taken as a raw key
IsRawKeyNever(buf) == FALSE

\* keyFileBuffer.byteLength === 32 (line 58)
IsRawKey(buf) == Len(buf) = 32

\* mutant: the keystore slice starts one byte late
KeystoreSliceLate(buf) == Slice(buf, 127, 127 + 32)

\* keyFileBuffer.slice(126, 126 + 32) (line 61)
KeystoreSlice(buf) == Slice(buf, 126, 126 + 32)

extractKey(keyFileBuf) ==
    ImportKey(IF IsRawKey(keyFileBuf) THEN KeyOk(keyFileBuf)
              ELSE IF Len(keyFileBuf) = 158 THEN KeyOk(KeystoreSlice(keyFileBuf))
              ELSE Rethrow(TryParse(keyFileBuf)))

(***************************************************************************)
(* The inputs of a decode: containers as a backup writer lays them out,    *)
(* damaged variants of them, and the key supplied by the caller.           *)
(***************************************************************************)
RECURSIVE ListsUpTo(_, _)
ListsUpTo(S, k) ==
    IF k = 0 THEN {<< >>}
    ELSE LET P == ListsUpTo(S, k - 1) IN P \cup {Append(p, x) : p \in P, x \in S}

RECURSIVE Concat(_)
Concat(list) == IF list = << >> THEN << >> ELSE Head(list) \o Concat(Tail(list))

\* the wire types of a list of encoded fields (low three bits of the tag)
Wires(list) == {list[i][1] % 8 : i \in DOMAIN list}

\* the keys: the one the containers were written with, and another one
KeyA == [i \in 1..32 |-> i]
KeyB == [i \in 1..32 |-> (3 * i + 1) % 256]
Defined(k) == [defined |-> TRUE, bytes |-> k]
Undefined  == [defined |-> FALSE, bytes |-> << >>]

\* the IV a writer stores in the header, and the 16 bytes after the tag
WriterIV == [i \in 1..16 |-> 160 + i]
Trailer  == [i \in 1..16 |-> 200 + i]

\* plaintexts: a zlib stream and bytes that are not one ("SQLi")
ZlibPlain == <<120, 156, 83, 81, 76>>
RawPlain  == <<83, 81, 76, 105>>

\* unknown top-level fields: varint (field 1), varint with a two-byte value
\* (field 2), fixed-64 (field 4), fixed-32 (field 5), length-delimited
\* (field 6, its payload looks like the start of field 3), varint of
\* field 20 (two-byte tag)
TopUnknown ==
    { <<8, 1>>, <<16, 129, 1>>, <<33, 1, 2, 3, 4, 5, 6, 7, 8>>,
      <<45, 1, 2, 3, 4>>, <<50, 2, 26, 0>>, <<160, 1, 5>> }

\* unknown sub-fields of field 3: length-delimited, varint, fixed-32,
\* fixed-64 (all of field 2 or 3)
SubUnknown ==
    { <<18, 1, 7>>, <<16, 5>>, <<29, 1, 2, 3, 4>>,
      <<25, 1, 2, 3, 4, 5, 6, 7, 8>> }

\* field 3 as a length-delimited field, and sub-field 1 holding the IV
Field3(sub) == <<26, Len(sub)>> \o sub
IvSub(civ)   == <<10, Len(civ)>> \o civ

\* a header: its bytes, whether a writer stored the IV in field 3 /
\* sub-field 1 (hasIV), the wire types of the unknown fields before field 3
\* (topWires) and of the unknown sub-fields before sub-field 1 (subWires)
Hdr(bytes, hasIV, topWires, subWires) ==
    [bytes |-> bytes, hasIV |-> hasIV, topWires |-> topWires,
     subWires |-> subWires]

\* well-formed headers with unknown fields before field 3
HeadersTop ==
    { Hdr(Concat(pre) \o Field3(IvSub(WriterIV)) \o post, TRUE, Wires(pre), {}) :
        pre \in ListsUpTo(TopUnknown, MaxTopUnknown),
        post \in {<< >>, <<8, 1>>} }

\* well-formed headers with unknown sub-fields before sub-field 1
HeadersSub ==
    { Hdr(Concat(top) \o Field3(Concat(pre) \o IvSub(WriterIV)), TRUE,
          Wires(top), Wires(pre)) :
        top \in {<< >>, << <<8, 1>> >>},
        pre \in ListsUpTo(SubUnknown, MaxSubUnknown) }

\* headers without a usable IV: no field 3, a sub-field 1 of 15 bytes, a
\* group field (wire type 3) before field 3.  A writer of such a container
\* takes the IV from bytes 8..23 of the file.
Filler(n) == [i \in 1..n |-> 100 + i]
HeadersNoIV ==
    { Hdr(<<8, 1>> \o <<50, 20>> \o Filler(20), FALSE, {0, 2}, {}),
      Hdr(<<8, 1>> \o Field3(IvSub(Filler(15))) \o <<45, 1, 2, 3, 4>>,
          FALSE, {0}, {}),
      Hdr(<<27, 1>> \o Field3(IvSub(WriterIV)), FALSE, {3}, {}) }

\* headers whose last field extends beyond the header end: a varint value
\* without its last byte, a fixed-64 field with three bytes, a
\* length-delimited field of declared length 9 with two bytes, a tag
\* without its last byte; each after a complete field 3 or without one
HeadersOverrun ==
    { Hdr(pre \o cutField, Len(pre) > 0, {}, {}) :
        pre \in {<< >>, Field3(IvSub(WriterIV))},
        cutField \in { <<16, 129>>, <<33, 1, 2, 3>>, <<50, 9, 1, 2>>, <<160>> } }

\* the five-byte varint whose 32-bit value is -n (1 <= n <= 64)
NegVarint(n) == <<256 - n, 255, 255, 255, 15>>

\* headers with a length-delimited field of negative 32-bit length: one
\* that sets the cursor back to the field's own tag (at the top level,
\* after a complete field 3, and inside field 3), one that sets it before
\* the start of the header, and a six-byte length whose last shift wraps
HeadersNegLen ==
    { Hdr(<<18>> \o NegVarint(6), FALSE, {}, {}),
      Hdr(Field3(IvSub(WriterIV)) \o <<18>> \o NegVarint(6), FALSE, {}, {}),
      Hdr(Field3(<<10>> \o NegVarint(6)), FALSE, {}, {}),
      Hdr(Field3(<<18>> \o NegVarint(6)), FALSE, {}, {}),
      Hdr(<<18>> \o NegVarint(7), FALSE, {}, {}),
      Hdr(Field3(<<10>> \o NegVarint(7)), FALSE, {}, {}),
      Hdr(<<18, 128, 128, 128, 128, 128, 1>>, FALSE, {}, {}) }

\* the cipher run forwards: what a writer does
GcmEncrypt(key, civ, plain) ==
    [i \in 1..Len(plain) |-> (plain[i] + GcmPad(key, civ) + (i % 256)) % 256]

FlipBit(b) == IF b % 2 = 0 THEN b + 1 ELSE b - 1

\* a crypt15 container: length byte, optional feature flag, header,
\* ciphertext, 16-byte tag, 16 trailing bytes.  cut shortens the declared
\* header length; tamper damages the tag ("tag") or the ciphertext ("ct").
MkCrypt15(flag, header, cut, plain, tamper) ==
    LET front == <<Len(header.bytes) - cut>> \o (IF flag THEN <<1>> ELSE << >>)
                 \o header.bytes
        wiv   == IF header.hasIV \/ Len(front) < 24
                 THEN WriterIV ELSE SubSeq(front, 9, 24)
        key   == deriveCrypt15Key(KeyA)
        ct    == GcmEncrypt(key, wiv, plain)
        wtag  == GcmTag(key, wiv, ct)
        ct2   == IF tamper = "ct"
                 THEN [ct EXCEPT ![1] = (ct[1] + 1) % 256] ELSE ct
        tag2  == IF tamper = "tag"
                 THEN [wtag EXCEPT ![16] = FlipBit(wtag[16])] ELSE wtag
    IN  front \o ct2 \o tag2 \o Trailer

\* legacy containers: filler up to the IV offset, IV, filler up to the
\* ciphertext offset, ciphertext, and the 20-byte footer of crypt12
MkLegacy(type, plain) ==
    LET cfg   == CRYPT_CONFIG[type]
        ct    == GcmEncrypt(KeyA, WriterIV, plain)
        front == Filler(cfg.ivOffset) \o WriterIV
        gap   == [i \in 1..(cfg.dbStartOffset - Len(front)) |-> 50 + (i % 7)]
        foot  == IF type = "crypt12" THEN [i \in 1..20 |-> 220 + i] ELSE << >>
    IN  front \o gap \o ct \o foot

Keys == {Defined(KeyA), Defined(KeyB), Undefined}

\* what is known of a container by construction (never read by the code):
\* the header fields above, whether the container is whole (neither
\* truncated nor with a shortened header length), and how it was damaged
Shape(hasIV, topWires, subWires, whole, tamper) ==
    [hasIV |-> hasIV, topWires |-> topWires, subWires |-> subWires,
     whole |-> whole, tamper |-> tamper]
ShapeOf(h, tamper) == Shape(h.hasIV, h.topWires, h.subWires, TRUE, tamper)
Damaged == Shape(FALSE, {}, {}, FALSE, "none")
LegacyShape == Shape(FALSE, {}, {}, TRUE, "none")

Input(type, file, key, how) ==
    [type |-> type, file |-> file, key |-> key, shape |-> how]

CanonicalHdr == Hdr(<<8, 1>> \o Field3(IvSub(WriterIV)), TRUE, {0}, {})

\* lengths a crypt15 / a legacy container is truncated to
TruncLens == {0, 1, 2, 12, 20, 30, 45}
LegacyTruncLens == {0, 40, 60, 75, 80}

Inputs ==
    \* header variety, right key, intact container
    { Input("crypt15", MkCrypt15(f, h, 0, ZlibPlain, "none"), Defined(KeyA),
            ShapeOf(h, "none")) :
        f \in BOOLEAN, h \in HeadersTop \cup HeadersSub \cup HeadersNoIV }
    \cup
    \* headers whose last field runs past the header end
    { Input("crypt15", MkCrypt15(f, h, 0, ZlibPlain, "none"), Defined(KeyA),
            ShapeOf(h, "none")) : f \in BOOLEAN, h \in HeadersOverrun }
    \cup
    \* headers with a negative field length
    { Input("crypt15", MkCrypt15(f, h, 0, ZlibPlain, "none"), Defined(KeyA),
            Damaged) : f \in BOOLEAN, h \in HeadersNegLen }
    \cup
    \* keys, plaintexts and damage on one header
    { Input("crypt15", MkCrypt15(FALSE, CanonicalHdr, 0, p, t), k,
            ShapeOf(CanonicalHdr, t)) :
        p \in {ZlibPlain, RawPlain}, t \in {"none", "tag", "ct"}, k \in Keys }
    \cup
    \* a declared header length that ends inside the IV
    { Input("crypt15", MkCrypt15(f, CanonicalHdr, c, ZlibPlain, "none"),
            Defined(KeyA), Damaged) : f \in BOOLEAN, c \in {5, 16} }
    \cup
    \* truncated crypt15 containers
    { Input("crypt15",
            SubSeq(MkCrypt15(FALSE, CanonicalHdr, 0, ZlibPlain, "none"), 1, n),
            Defined(KeyA), Damaged) : n \in TruncLens }
    \cup
    \* legacy containers, whole and truncated
    { Input(t, MkLegacy(t, p), k, LegacyShape) :
        t \in {"crypt12", "crypt14"}, p \in {ZlibPlain, RawPlain}, k \in Keys }
    \cup
    { Input(t, SubSeq(MkLegacy(t, ZlibPlain), 1, n), Defined(KeyA), Damaged) :
        t \in {"crypt12", "crypt14"}, n \in LegacyTruncLens }

(***************************************************************************)
(* The state: the arguments of one decryptDatabase call, the locals of the *)
(* worker's onmessage handler and its position, the messages in flight,    *)
(* and the wrapper's promise.                                              *)
(***************************************************************************)
VARIABLES
    encryptionType,  \* "crypt12", "crypt14" or "crypt15"
    fileBuffer,      \* the container bytes
    rawKeyBytes,     \* Defined(32 bytes) or Undefined
    shape,           \* how the container was built (never read by the code)
    pc,              \* worker: "idle","parse","decrypt","inflate","done","hung"
    workingKeyBytes, \* the cipher key
    hdr,             \* crypt15: protobufStart, protobufEnd, protobufBuffer, foundIV
    iv,              \* the IV handed to decipher.start
    ciphertext,      \* the bytes handed to decipher.update
    tag,             \* the tag option of decipher.start, if one is supplied
    decipher,        \* "none", "threw" (start threw), "ok" / "mismatch"
                     \* (finish returned true / false), "unchecked" (legacy)
    arr,             \* the decrypted bytes read from decipher.output
    inflate,         \* "none", "ok", "failed": outcome of pako.inflate
    inbox,           \* the start message is on its way to the worker
    outbox,          \* messages posted by the worker and not yet delivered
    posted,          \* every message the worker posted, in order
    worker,          \* "none", "running", "terminated"
    promise,         \* "pending", "resolved", "rejected"
    result,          \* the buffer or the error message the promise settled with
    settles,         \* calls of resolve or reject
    statuses,        \* statuses passed to onProgress, in order
    keyFileBuffer,   \* the key material handed to extractKey
    keyResult,       \* what that extractKey call settled with, once it has
    detectBuffer,    \* the bytes handed to detectEncryptionType
    detectName,      \* the file name handed to it, when there is one
    detected,        \* what it returned, once it has
    inThread,        \* the in-thread decryptDatabase call on the same input
    dbLoaded,        \* App state: a database is shown
    error,           \* App state: the error text, or "null"
    pendingFile,     \* App state: the file waiting for a key, or "null"
    encryptionTypeState, \* App state encryptionType: its format, or "null"
    showKeyModal,    \* App state: the key modal is open
    isDecrypting,    \* App state
    dbInstance,      \* dbService: the database that was loaded last
    submits,         \* the calls of handleKeySubmit, each at its await
    selects          \* the calls of processFile, each at its await

inputVars  == <<encryptionType, fileBuffer, rawKeyBytes, shape>>
cipherVars == <<workingKeyBytes, hdr, iv, ciphertext, tag, decipher, arr, inflate>>
mainVars   == <<worker, promise, result, settles, statuses>>
keyVars    == <<keyFileBuffer, keyResult>>
detectVars == <<detectBuffer, detectName, detected>>
decodeVars == <<inputVars, pc, cipherVars, inbox, outbox, posted, mainVars>>
appState   == <<dbLoaded, error, pendingFile, encryptionTypeState,
                showKeyModal, isDecrypting>>
appVars    == <<appState, dbInstance, submits, selects>>
otherVars  == <<decodeVars, keyVars, detectVars, inThread>>
sideVars   == <<keyVars, detectVars, inThread, appVars>>
vars == <<decodeVars, sideVars>>

Msg(type, status, buffer, message) ==
    [type |-> type, status |-> status, buffer |-> buffer, message |-> message]
Progress(status) == Msg("progress", status, << >>, "")
Complete(buffer) == Msg("complete", "", buffer, "")
Error(message)   == Msg("error", "", << >>, message)

\* the messages of the two typed failures of the crypt15 branch
AuthFailedMsg       == "Decryption failed (Forge Auth Mismatch)"
DecompressFailedMsg == "Decompression failed (Invalid Zlib data)"

NoTag == [supplied |-> FALSE, bytes |-> << >>]
TagOf(bytes) == [supplied |-> TRUE, bytes |-> bytes]

NoHdr == [protobufStart |-> 0, protobufEnd |-> 0, protobufBuffer |-> << >>,
          foundIV |-> NoIV]

\* extractKey has not settled
KeyPending == [ok |-> FALSE, raw |-> << >>, error |-> "pending"]

\* nothing has run yet on the decode of input in
Idle(in) ==
    /\ encryptionType = in.type
    /\ fileBuffer = in.file
    /\ rawKeyBytes = in.key
    /\ shape = in.shape
    /\ pc = "idle"
    /\ workingKeyBytes = << >>
    /\ hdr = NoHdr
    /\ iv = << >>
    /\ ciphertext = << >>
    /\ tag = NoTag
    /\ decipher = "none"
    /\ arr = << >>
    /\ inflate = "none"
    /\ inbox = FALSE
    /\ outbox = << >>
    /\ posted = << >>
    /\ worker = "none"
    /\ promise = "pending"
    /\ result = << >>
    /\ settles = 0
    /\ statuses = << >>

\* a file name: File.name, or the absent optional argument
NoName == [defined |-> FALSE, text |-> << >>]
Name(text) == [defined |-> TRUE, text |-> text]

\* no extractKey call and no detectEncryptionType call is under way
KeyIdle == keyFileBuffer = << >> /\ keyResult = KeyPending
DetectIdle == detectBuffer = << >> /\ detectName = NoName /\ detected = "pending"

\* the decode that stays idle while another function is exercised
NoDecode == Idle(Input("crypt15", << >>, Undefined, Damaged))

\* the in-thread decryptDatabase has not been called
NotCalled == [called |-> FALSE, startThrows |-> FALSE, out |-> Progress("")]

\* no database has been loaded
NoDb == [file |-> "null", via |-> "none"]

\* the App as it is mounted (App.tsx lines 11-23)
AppIdle ==
    /\ dbLoaded = FALSE
    /\ error = "null"
    /\ pendingFile = "null"
    /\ encryptionTypeState = "null"
    /\ showKeyModal = FALSE
    /\ isDecrypting = FALSE
    /\ dbInstance = NoDb
    /\ submits = << >>
    /\ selects = << >>

Init ==
    /\ \E in \in Inputs : Idle(in)
    /\ KeyIdle
    /\ DetectIdle
    /\ inThread = NotCalled
    /\ AppIdle

\* the guards of the steps: the call has not been made; the start message
\* has reached a live worker; the handler is at one of its later phases; a
\* message waits for the wrapper of a worker that was not terminated
CanCall      == worker = "none"
CanStart     == worker = "running" /\ inbox /\ pc = "idle"
CanStep(at)  == worker = "running" /\ pc = at
CanDeliver   == worker = "running" /\ outbox # << >>

\* mutant: a message overtakes the ones posted before it
PostNewestFirst(ms) ==
    /\ outbox' = ms \o outbox
    /\ posted' = ms \o posted

\* self.postMessage of a sequence of messages
Post(ms) ==
    /\ outbox' = outbox \o ms
    /\ posted' = posted \o ms

\* the catch of the handler: post the error, the handler returns
Throw(progress, message) ==
    /\ Post(progress \o <<Error(message)>>)
    /\ pc' = "done"

(***************************************************************************)
(* decryptDatabase (wrapper): creates the worker and sends it the buffers. *)
(***************************************************************************)
Call ==
    /\ CanCall
    /\ worker' = "running"
    /\ inbox' = TRUE
    /\ UNCHANGED <<sideVars, inputVars, pc, cipherVars, outbox, posted,
                   promise, result, settles, statuses>>

\* mutant: the derivation is run for every format
KeyForAlwaysDerive(type, raw) == toBinaryString(deriveCrypt15Key(raw))

\* lines 68-84: the key the cipher is started with
KeyFor(type, raw) ==
    IF type = "crypt15"
    THEN toBinaryString(deriveCrypt15Key(raw))
    ELSE toBinaryString(raw)

\* self.onmessage, lines 60-84: key preparation
WorkerKeys ==
    /\ CanStart
    /\ inbox' = FALSE
    /\ IF ~rawKeyBytes.defined
       THEN /\ Throw(<<Progress("Deriving keys...")>>,
                     IF encryptionType = "crypt15"
                     THEN "Crypt15 requires raw key bytes for derivation"
                     ELSE "Raw key bytes required for worker")
            /\ UNCHANGED workingKeyBytes
       ELSE /\ Post(<<Progress("Deriving keys...")>>)
            /\ workingKeyBytes' = KeyFor(encryptionType, rawKeyBytes.bytes)
            /\ pc' = "parse"
    /\ UNCHANGED <<sideVars, inputVars, hdr, iv, ciphertext, tag, decipher, arr, inflate,
                   mainVars>>

\* self.onmessage, lines 86-194: the container is parsed (crypt15 only;
\* the legacy branch slices after its next progress message)
WorkerParse ==
    /\ CanStep("parse")
    /\ IF encryptionType = "crypt15"
       THEN LET p == ParseCrypt15(fileBuffer) IN
            IF p.threw
            THEN /\ Throw(<<Progress("Parsing file structure...")>>,
                          "Offset is outside the bounds of the DataView")
                 /\ UNCHANGED <<hdr, iv, ciphertext, tag>>
            ELSE /\ Post(<<Progress("Parsing file structure...")>>)
                 /\ hdr' = [protobufStart |-> p.protobufStart,
                            protobufEnd |-> p.protobufEnd,
                            protobufBuffer |-> p.protobufBuffer,
                            foundIV |-> p.foundIV]
                 /\ IF p.hung
                    THEN \* the header walk never leaves its loop
                         /\ pc' = "hung"
                         /\ UNCHANGED <<iv, ciphertext, tag>>
                    ELSE /\ iv' = p.iv
                         /\ ciphertext' = p.ciphertext
                         /\ tag' = TagOf(p.tag)
                         /\ pc' = "decrypt"
       ELSE /\ Post(<<Progress("Parsing file structure...")>>)
            /\ pc' = "decrypt"
            /\ UNCHANGED <<hdr, iv, ciphertext, tag>>
    /\ UNCHANGED <<sideVars, inputVars, workingKeyBytes, decipher, arr, inflate, inbox,
                   mainVars>>

\* decipher.start checks the tag option against tagLength: a decipher that
\* is given no tag, or a tag that is not 16 bytes long, may reject it by
\* throwing.  The repository does not fix the library's answer, so both
\* outcomes are kept.
StartMayThrow(t) == ~t.supplied \/ Len(t.bytes) # 16

\* mutant: the result of finish() is ignored, as in the legacy branch
AbortNever(success) == FALSE

\* whether finish() returning false aborts the decode (line 207)
AbortOnMismatch(success) == ~success

\* self.onmessage, lines 196-211 (crypt15) and 223-241 (legacy):
\* the cipher is run
WorkerDecrypt ==
    /\ CanStep("decrypt")
    /\ IF encryptionType = "crypt15"
       THEN
         \E startThrows \in BOOLEAN :
           /\ startThrows => StartMayThrow(tag)
           /\ IF startThrows
              THEN /\ Throw(<<Progress("Decrypting AES-GCM...")>>,
                            "Authentication tag does not match tag length.")
                   /\ decipher' = "threw"
                   /\ UNCHANGED arr
              ELSE LET success == GcmFinish(workingKeyBytes, iv, ciphertext,
                                            tag.bytes)
                   IN  /\ decipher' = IF success THEN "ok" ELSE "mismatch"
                       /\ IF AbortOnMismatch(success)
                          THEN /\ Throw(<<Progress("Decrypting AES-GCM...")>>,
                                        "Decryption failed (Forge Auth Mismatch)")
                               /\ UNCHANGED arr
                          ELSE /\ Post(<<Progress("Decrypting AES-GCM...")>>)
                               /\ arr' = GcmDecrypt(workingKeyBytes, iv,
                                                    ciphertext)
                               /\ pc' = "inflate"
           /\ UNCHANGED <<iv, ciphertext, tag>>
       ELSE
         \E startThrows \in BOOLEAN :
           /\ iv' = LegacyIv(encryptionType, fileBuffer)
           /\ ciphertext' = LegacyCiphertext(encryptionType, fileBuffer)
           /\ tag' = NoTag
           /\ IF startThrows
              THEN /\ Throw(<<Progress("Decrypting Legacy Format...")>>,
                            "Authentication tag does not match tag length.")
                   /\ decipher' = "threw"
                   /\ UNCHANGED arr
              ELSE /\ Post(<<Progress("Decrypting Legacy Format...")>>)
                   /\ decipher' = "unchecked"
                   /\ arr' = GcmDecrypt(workingKeyBytes, iv', ciphertext')
                   /\ pc' = "inflate"
    /\ UNCHANGED <<sideVars, inputVars, workingKeyBytes, hdr, inflate, inbox, mainVars>>

\* mutant: the fallback to the raw bytes is given to crypt15 instead
InflateFailureSwapped(type, bytes) ==
    IF type = "crypt15"
    THEN Complete(bytes)
    ELSE Error(DecompressFailedMsg)

\* what the worker posts when pako.inflate throws
InflateFailure(type, bytes) ==
    IF type = "crypt15"
    THEN Error(DecompressFailedMsg)
    ELSE Complete(bytes)

\* self.onmessage, lines 213-220 (crypt15) and 243-251 (legacy):
\* decompression and the terminal message
WorkerInflate ==
    /\ CanStep("inflate")
    /\ LET status == IF encryptionType = "crypt15"
                     THEN "Decompressing Zlib..."
                     ELSE "Decompressing (Legacy)..."
       IN  IF InflateOk(arr)
           THEN /\ inflate' = "ok"
                /\ Post(<<Progress(status), Complete(Inflate(arr))>>)
           ELSE /\ inflate' = "failed"
                /\ Post(<<Progress(status), InflateFailure(encryptionType, arr)>>)
    /\ pc' = "done"
    /\ UNCHANGED <<sideVars, inputVars, workingKeyBytes, hdr, iv, ciphertext, tag,
                   decipher, arr, inbox, mainVars>>

\* mutant: the worker is left running after an error
TerminateOnCompleteOnly(type) == type = "complete"

\* whether the wrapper terminates the worker after a terminal message
TerminateAfter(type) == type \in {"complete", "error"}

\* worker.onmessage of the wrapper (part_002 lines 214-225)
MainOnMessage ==
    /\ CanDeliver
    /\ LET m == Head(outbox) IN
         /\ outbox' = Tail(outbox)
         /\ CASE m.type = "progress" ->
                   /\ statuses' = Append(statuses, m.status)
                   /\ UNCHANGED <<promise, result, settles>>
              [] m.type = "complete" ->
                   /\ settles' = settles + 1
                   /\ promise' = IF promise = "pending" THEN "resolved" ELSE promise
                   /\ result' = IF promise = "pending" THEN m.buffer ELSE result
                   /\ UNCHANGED statuses
              [] m.type = "error" ->
                   /\ settles' = settles + 1
                   /\ promise' = IF promise = "pending" THEN "rejected" ELSE promise
                   /\ result' = IF promise = "pending" THEN m.message ELSE result
                   /\ UNCHANGED statuses
         /\ worker' = IF TerminateAfter(m.type) THEN "terminated" ELSE worker
    /\ UNCHANGED <<sideVars, inputVars, pc, cipherVars, inbox, posted>>

\* worker.onerror of the wrapper (part_002 lines 227-230): the worker script
\* fails before the handler runs
WorkerOnError ==
    /\ CanStart
    /\ settles' = settles + 1
    /\ promise' = IF promise = "pending" THEN "rejected" ELSE promise
    /\ result' = IF promise = "pending" THEN "Worker Error" ELSE result
    /\ worker' = "terminated"
    /\ UNCHANGED <<sideVars, inputVars, pc, cipherVars, inbox, outbox, posted, statuses>>

Next ==
    \/ Call
    \/ WorkerKeys
    \/ WorkerParse
    \/ WorkerDecrypt
    \/ WorkerInflate
    \/ MainOnMessage
    \/ WorkerOnError

Spec == Init /\ [][Next]_vars

(***************************************************************************)
(* The two copies of the decode as functions of their arguments.           *)
(* startThrows is the library's answer to a decipher started without a     *)
(* 16-byte tag, the same for both copies.                                  *)
(***************************************************************************)
\* the handler never returns
Hung == Msg("hung", "", << >>, "")

TagLengthMsg == "Authentication tag does not match tag length."

\* lines 196-220 and 223-251 of the worker, from the cipher on
WorkerCipher(type, key, civ, ct, t, startThrows) ==
    IF startThrows /\ StartMayThrow(t) THEN Error(TagLengthMsg)
    ELSE IF type = "crypt15"
            /\ AbortOnMismatch(GcmFinish(key, civ, ct, t.bytes))
    THEN Error(AuthFailedMsg)
    ELSE LET plain == GcmDecrypt(key, civ, ct) IN
         IF InflateOk(plain) THEN Complete(Inflate(plain))
         ELSE InflateFailure(type, plain)

\* self.onmessage of the worker (part_001 lines 60-256): the terminal
\* message posted for one request
WorkerRun(type, view, raw, startThrows) ==
    IF ~raw.defined
    THEN Error(IF type = "crypt15"
               THEN "Crypt15 requires raw key bytes for derivation"
               ELSE "Raw key bytes required for worker")
    ELSE IF type = "crypt15"
    THEN LET p == ParseCrypt15(view) IN
         IF p.threw THEN Error("Offset is outside the bounds of the DataView")
         ELSE IF p.hung THEN Hung
         ELSE WorkerCipher(type, KeyFor(type, raw.bytes), p.iv, p.ciphertext,
                           TagOf(p.tag), startThrows)
    ELSE WorkerCipher(type, KeyFor(type, raw.bytes), LegacyIv(type, view),
                      LegacyCiphertext(type, view), NoTag, startThrows)

\* encryptionService.ts lines 176-189: without raw key bytes a legacy decode
\* exports the CryptoKey
InThreadKey(type, raw, exported) ==
    IF type = "crypt15" THEN toBinaryString(deriveCrypt15Key(raw.bytes))
    ELSE IF raw.defined THEN toBinaryString(raw.bytes)
    ELSE toBinaryString(exported)

\* mutant: the in-thread copy returns the raw bytes for crypt15 as well
InThreadInflateFailureRaw(type, plain) == Complete(plain)

\* encryptionService.ts lines 311-316 and 337-342: what a failed inflate
\* becomes
InThreadInflateFailure(type, plain) ==
    IF type = "crypt15" THEN Error(DecompressFailedMsg) ELSE Complete(plain)

\* encryptionService.ts lines 295-343, from the cipher on
InThreadCipher(type, key, civ, ct, t, startThrows) ==
    IF startThrows /\ StartMayThrow(t) THEN Error(TagLengthMsg)
    ELSE IF type = "crypt15" /\ ~GcmFinish(key, civ, ct, t.bytes)
    THEN Error(AuthFailedMsg)
    ELSE LET plain == GcmDecrypt(key, civ, ct) IN
         IF InflateOk(plain) THEN Complete(Inflate(plain))
         ELSE InThreadInflateFailure(type, plain)

\* decryptDatabase of encryptionService.ts (lines 169-344): the buffer it
\* resolves with or the error it rejects with.  Its header walk is the text
\* of the worker's.
decryptDatabaseInThread(type, view, raw, exported, startThrows) ==
    IF type = "crypt15" /\ ~raw.defined
    THEN Error("Crypt15 requires raw key bytes for derivation")
    ELSE IF type = "crypt15"
    THEN LET p == ParseCrypt15(view) IN
         IF p.threw THEN Error("Offset is outside the bounds of the DataView")
         ELSE IF p.hung THEN Hung
         ELSE InThreadCipher(type, InThreadKey(type, raw, exported), p.iv,
                             p.ciphertext, TagOf(p.tag), startThrows)
    ELSE InThreadCipher(type, InThreadKey(type, raw, exported),
                        LegacyIv(type, view), LegacyCiphertext(type, view),
                        NoTag, startThrows)

\* one call of the in-thread decryptDatabase on the input of the decode;
\* the CryptoKey it may export holds one of the two keys
RunInThread ==
    /\ ~inThread.called
    /\ \E startThrows \in BOOLEAN, exported \in {KeyA, KeyB} :
          inThread' = [called |-> TRUE, startThrows |-> startThrows,
                       out |-> decryptDatabaseInThread(encryptionType,
                                   fileBuffer, rawKeyBytes, exported,
                                   startThrows)]
    /\ UNCHANGED <<decodeVars, keyVars, detectVars, appVars>>

EquivNext == Next \/ RunInThread

EquivSpec == Init /\ [][EquivNext]_vars

(***************************************************************************)
(* detectEncryptionType (encryptionService.ts lines 31-52, the same text   *)
(* as part_002 lines 114-135), and the specification of one call.  A file  *)
(* name is a sequence of characters.                                       *)
(***************************************************************************)
\* String.prototype.endsWith
EndsWith(text, suffix) ==
    /\ Len(text) >= Len(suffix)
    /\ SubSeq(text, Len(text) - Len(suffix) + 1, Len(text)) = suffix

ExtCrypt12 == <<".", "c", "r", "y", "p", "t", "1", "2">>
ExtCrypt14 == <<".", "c", "r", "y", "p", "t", "1", "4">>
ExtCrypt15 == <<".", "c", "r", "y", "p", "t", "1", "5">>

\* mutant: the header bytes 87 01 classify a nameless container as crypt15
SniffHeaderLoose(buffer) ==
    IF Len(buffer) > 67 /\ buffer[1] = 135 /\ buffer[2] = 1
    THEN "crypt15" ELSE "null"

\* lines 40-49: the header check has an empty body; null is returned
SniffHeader(buffer) == "null"

\* if (fileName): undefined and the empty string are both skipped
detectEncryptionType(buffer, fileName) ==
    IF fileName.defined /\ fileName.text # << >>
          /\ EndsWith(fileName.text, ExtCrypt12) THEN "crypt12"
    ELSE IF fileName.defined /\ fileName.text # << >>
          /\ EndsWith(fileName.text, ExtCrypt14) THEN "crypt14"
    ELSE IF fileName.defined /\ fileName.text # << >>
          /\ EndsWith(fileName.text, ExtCrypt15) THEN "crypt15"
    ELSE SniffHeader(buffer)

Stem == <<"m", "s", "g", "s", "t", "o", "r", "e", ".", "d", "b">>

FileNames ==
    { NoName, Name(<< >>), Name(Stem) }
    \cup { Name(pre \o ext \o post) :
             pre  \in {<< >>, Stem, ExtCrypt12, ExtCrypt15},
             ext  \in {ExtCrypt12, ExtCrypt14, ExtCrypt15,
                       <<".", "C", "R", "Y", "P", "T", "1", "5">>,
                       <<"c", "r", "y", "p", "t", "1", "4">>,
                       <<".", "c", "r", "y", "p", "t", "1">>},
             post \in {<< >>, <<".", "b", "a", "k">>, <<" ">>} }

\* "SQLite format 3" and a zero byte, then page data
SqliteBytes ==
    <<83, 81, 76, 105, 116, 101, 32, 102, 111, 114, 109, 97, 116, 32, 51, 0>>
    \o [i \in 1..60 |-> i]

FileBodies ==
    { << >>, <<135, 1>>, SqliteBytes,
      <<135, 1, 8, 1>> \o [i \in 1..70 |-> 10 + i],
      <<135, 2, 8, 1>> \o [i \in 1..70 |-> 10 + i],
      MkCrypt15(FALSE, CanonicalHdr, 0, ZlibPlain, "none"),
      MkLegacy("crypt12", ZlibPlain), MkLegacy("crypt14", ZlibPlain) }

DetectInit ==
    /\ NoDecode
    /\ KeyIdle
    /\ inThread = NotCalled
    /\ AppIdle
    /\ detectBuffer \in FileBodies
    /\ detectName \in FileNames
    /\ detected = "pending"

\* one call of detectEncryptionType returns
Detect ==
    /\ detected = "pending"
    /\ detected' = detectEncryptionType(detectBuffer, detectName)
    /\ UNCHANGED <<detectBuffer, detectName, decodeVars, keyVars, inThread,
                   appVars>>

DetectNext == Detect

DetectSpec == DetectInit /\ [][DetectNext]_vars

(***************************************************************************)
(* Key material handed to extractKey, and the specification of one call.   *)
(***************************************************************************)
\* bytes that are neither hex digits, white space, 0 nor 32
KeyFiller(n) == [i \in 1..n |-> 200 + (i % 50)]

HexAlphabet ==
    <<48, 49, 50, 51, 52, 53, 54, 55, 56, 57, 97, 98, 99, 100, 101, 102,
      65, 66, 67, 68, 69, 70>>

\* a string of n hex digits, as TextEncoder encodes it
HexString(n, a, b) == [i \in 1..n |-> HexAlphabet[((a * i + b) % 22) + 1]]

Magic  == <<172, 237, 0, 5>>
Marker == <<0, 0, 0, 32>>

\* a buffer of n filler bytes with the given bytes written at offset at
Overwrite(buf, at, bytes) ==
    [i \in 1..Len(buf) |->
        IF i > at /\ i <= at + Len(bytes) THEN bytes[i - at] ELSE buf[i]]

\* a serialized object of n bytes with the marker at each offset of ps
Serialized(n, ps) ==
    [i \in 1..n |->
        IF \E q \in ps : q >= 4 /\ q + 4 <= n /\ i > q /\ i <= q + 4
        THEN LET q == CHOOSE q \in ps : q >= 4 /\ q + 4 <= n /\ i > q /\ i <= q + 4
             IN  Marker[i - q]
        ELSE IF i <= 4 THEN Magic[i]
        ELSE KeyFiller(n)[i]]

KeyFiles ==
    \* 32 bytes: arbitrary, with the magic, with the marker, printable
    { KeyA, KeyB, Serialized(32, {}), Serialized(32, {8}),
      Overwrite(KeyFiller(32), 0, Marker), HexString(32, 1, 0) }
    \cup
    \* 158 bytes: arbitrary, with the magic, with the marker
    { KeyFiller(158), Serialized(158, {}), Serialized(158, {20}),
      Overwrite(KeyFiller(158), 130, Marker) }
    \cup
    \* 64 hex digits, also followed by a line end
    { HexString(64, a, b) \o nl :
        a \in {1, 3, 7}, b \in 0..7, nl \in {<< >>, <<10>>} }
    \cup
    \* text that is not 64 hex digits
    { HexString(63, 1, 0), HexString(65, 1, 0), HexString(63, 1, 0) \o <<103>>,
      HexString(10, 1, 0), << >>, KeyFiller(10), KeyFiller(100) }
    \cup
    \* serialized objects: 59 bytes, and others with markers
    { Serialized(59, ps) : ps \in {{}, {6}, {40}} }
    \cup
    UNION { { Serialized(n, ps) :
                ps \in {{}, {4}, {10}, {n - 36}, {n - 35}, {n - 20}, {n - 4},
                        {10, 20}, {n - 10, 6}} } :
            n \in {4, 5, 20, 31, 36, 40, 70} }

KeyInit ==
    /\ NoDecode
    /\ DetectIdle
    /\ inThread = NotCalled
    /\ AppIdle
    /\ keyFileBuffer \in KeyFiles
    /\ keyResult = KeyPending

\* one call of extractKey settles with the raw key or with an error
ExtractKey ==
    /\ keyResult = KeyPending
    /\ keyResult' = extractKey(keyFileBuffer)
    /\ UNCHANGED <<keyFileBuffer, decodeVars, detectVars, inThread, appVars>>

KeyNext == ExtractKey

KeySpec == KeyInit /\ [][KeyNext]_vars

(***************************************************************************)
(* The App (App.tsx): processFile, handleKeySubmit, cancelKeyEntry and the *)
(* Close File button.  An async handler is one action per stretch between  *)
(* its awaits; its locals (the closure's pendingFile and encryptionType    *)
(* among them) are kept in the record of the call.  The progress text and  *)
(* the chat lists are left out.                                            *)
(***************************************************************************)
\* calls of handleKeySubmit and of processFile in one run
MaxCalls == 3

Calls == Len(submits) + Len(selects)

\* the files a user can select
FileIds == {"plain", "c15", "bak"}

FileName(f) ==
    CASE f = "plain" -> Name(Stem)
      [] f = "c15"   -> Name(Stem \o ExtCrypt15)
      [] f = "bak"   -> Name(Stem \o ExtCrypt15 \o <<".", "b", "a", "k">>)

\* a crypt15 backup written with KeyA
BackupBytes == MkCrypt15(FALSE, CanonicalHdr, 0, ZlibPlain, "none")

FileBody(f) ==
    CASE f = "plain" -> SqliteBytes
      [] f = "c15"   -> BackupBytes
      [] f = "bak"   -> BackupBytes

\* the keys a user can submit: key files, and the 64 hex digits the modal
\* lets through (KeyEntryModal.tsx lines 41-45)
KeyIds == {"right", "junk", "hex"}

\* lines 74-80: a string is encoded, a file is read
KeyBuffer(k) ==
    CASE k = "right" -> KeyA
      [] k = "junk"  -> KeyFiller(10)
      [] k = "hex"   -> HexString(64, 1, 0)

\* what the App computes from a file and from a key: the classification of
\* each file and the outcome of extractKey on each key
Detected == [f \in FileIds |-> detectEncryptionType(FileBody(f), FileName(f))]

KeyResults == [k \in KeyIds |-> extractKey(KeyBuffer(k))]

\* a call of handleKeySubmit: where it waits, the pendingFile and the
\* encryptionType of its closure, its key input, its locals raw and dbBuffer
\* once they are assigned (lines 85 and 88), and whether it loaded
SubmitCall(at, file, type, key, raw, dbBuffer, ok) ==
    [at |-> at, file |-> file, type |-> type, key |-> key, raw |-> raw,
     dbBuffer |-> dbBuffer, ok |-> ok]

\* a call of processFile
SelectCall(at, file) == [at |-> at, file |-> file]

\* a call that has returned: its closure is gone, a submission leaves
\* behind whether it loaded the database
SubmitOver(ok) ==
    SubmitCall("over", "null", "null", "none", << >>, << >>, ok)
SelectOver     == SelectCall("over", "null")

\* the landing view holds the file input and, when open, the key modal
\* (lines 157-227); the database view holds the Close File button
FileInputShown == ~dbLoaded
KeyModalShown  == ~dbLoaded /\ showKeyModal

\* initDatabase either loads the buffer or throws (sql.js is not loaded, or
\* rejects the bytes): the repository does not fix which
InitErrors == {"SQL.js not loaded"}

\* processFile, lines 31-38: up to the await of file.arrayBuffer()
processFile(f) ==
    /\ FileInputShown
    /\ Calls < MaxCalls
    /\ error' = "null"
    /\ pendingFile' = "null"
    /\ encryptionTypeState' = "null"
    /\ showKeyModal' = FALSE
    /\ selects' = Append(selects, SelectCall("read", f))
    /\ UNCHANGED <<dbLoaded, isDecrypting, dbInstance, submits>>
    /\ UNCHANGED otherVars

\* mutant: no detected type asks for a key
NeedsKeyNever(detectedType) == FALSE

\* if (detectedType), line 42
NeedsKey(detectedType) == detectedType # "null"

\* processFile, lines 41-51: classification, then the key modal or the
\* await of initDatabase
ProcessFileRead(i) ==
    /\ selects[i].at = "read"
    /\ LET f == selects[i].file
           detectedType == Detected[f]
       IN  IF NeedsKey(detectedType)
           THEN /\ pendingFile' = f
                /\ encryptionTypeState' = detectedType
                /\ showKeyModal' = TRUE
                /\ selects' = [selects EXCEPT ![i] = SelectOver]
           ELSE /\ selects' = [selects EXCEPT ![i].at = "load"]
                /\ UNCHANGED <<pendingFile, encryptionTypeState, showKeyModal>>
    /\ UNCHANGED <<dbLoaded, error, isDecrypting, dbInstance, submits>>
    /\ UNCHANGED otherVars

\* processFile, lines 51-58: initDatabase has loaded the buffer, or thrown
ProcessFileLoaded(i) ==
    /\ selects[i].at = "load"
    /\ selects' = [selects EXCEPT ![i] = SelectOver]
    /\ \E loaded \in BOOLEAN :
          IF loaded
          THEN /\ dbInstance' = [file |-> selects[i].file, via |-> "direct"]
               /\ dbLoaded' = TRUE
               /\ UNCHANGED error
          ELSE /\ error' = "Failed to load database. Please ensure it is a valid msgstore.db file."
               /\ dbLoaded' = FALSE
               /\ UNCHANGED dbInstance
    /\ UNCHANGED <<pendingFile, encryptionTypeState, showKeyModal,
                   isDecrypting, submits>>
    /\ UNCHANGED otherVars

\* handleKeySubmit, lines 69-82: up to the await of extractKey
handleKeySubmit(k) ==
    /\ KeyModalShown
    /\ Calls < MaxCalls
    /\ pendingFile # "null" /\ encryptionTypeState # "null"
    /\ isDecrypting' = TRUE
    /\ error' = "null"
    /\ submits' = Append(submits,
                         SubmitCall("key", pendingFile, encryptionTypeState,
                                    k, << >>, << >>, FALSE))
    /\ UNCHANGED <<dbLoaded, pendingFile, encryptionTypeState, showKeyModal,
                   dbInstance, selects>>
    /\ UNCHANGED otherVars

\* mutant: a failed submission also closes the key entry
SubmitFailedResets(message) ==
    /\ error' = message
    /\ isDecrypting' = FALSE
    /\ showKeyModal' = FALSE
    /\ pendingFile' = "null"
    /\ encryptionTypeState' = "null"
    /\ UNCHANGED <<dbLoaded, dbInstance>>

\* handleKeySubmit, lines 109-114: catch and finally
SubmitFailed(message) ==
    /\ error' = message
    /\ isDecrypting' = FALSE
    /\ UNCHANGED <<dbLoaded, pendingFile, encryptionTypeState, showKeyModal,
                   dbInstance>>

\* handleKeySubmit, lines 82-92: extractKey has settled; decryptDatabase is
\* called with the closure's file and format
KeySubmitExtracted(i) ==
    /\ submits[i].at = "key"
    /\ LET r == KeyResults[submits[i].key] IN
       IF r.ok
       THEN /\ submits' = [submits EXCEPT
                            ![i].at = "decode",
                            ![i].raw = r.raw,
                            ![i].dbBuffer = FileBody(submits[i].file)]
            /\ UNCHANGED <<appState, dbInstance>>
       ELSE /\ submits' = [submits EXCEPT ![i] = SubmitOver(FALSE)]
            /\ SubmitFailed(r.error)
    /\ UNCHANGED selects
    /\ UNCHANGED otherVars

\* handleKeySubmit, lines 84-98: decryptDatabase has settled (a worker that
\* never answers leaves the call waiting)
KeySubmitDecoded(i) ==
    /\ submits[i].at = "decode"
    /\ \E startThrows \in BOOLEAN :
       \E m \in {WorkerRun(submits[i].type, submits[i].dbBuffer,
                           Defined(submits[i].raw), startThrows)} :
          /\ m.type # "hung"
          /\ IF m.type = "complete"
             THEN /\ submits' = [submits EXCEPT ![i].at = "init"]
                  /\ UNCHANGED <<appState, dbInstance>>
             ELSE /\ submits' = [submits EXCEPT ![i] = SubmitOver(FALSE)]
                  /\ SubmitFailed(m.message)
    /\ UNCHANGED selects
    /\ UNCHANGED otherVars

\* handleKeySubmit, lines 100-114: initDatabase has loaded the decoded
\* buffer, or thrown
KeySubmitLoaded(i) ==
    /\ submits[i].at = "init"
    /\ \E loaded \in BOOLEAN :
          IF loaded
          THEN /\ submits' = [submits EXCEPT ![i] = SubmitOver(TRUE)]
               /\ dbInstance' = [file |-> submits[i].file, via |-> "decode"]
               /\ dbLoaded' = TRUE
               /\ showKeyModal' = FALSE
               /\ pendingFile' = "null"
               /\ isDecrypting' = FALSE
               /\ UNCHANGED <<error, encryptionTypeState>>
          ELSE /\ submits' = [submits EXCEPT ![i] = SubmitOver(FALSE)]
               /\ \E message \in InitErrors : SubmitFailed(message)
    /\ UNCHANGED selects
    /\ UNCHANGED otherVars

\* cancelKeyEntry, lines 117-122
cancelKeyEntry ==
    /\ KeyModalShown
    /\ showKeyModal' = FALSE
    /\ pendingFile' = "null"
    /\ encryptionTypeState' = "null"
    /\ UNCHANGED <<dbLoaded, error, isDecrypting, dbInstance, submits, selects>>
    /\ UNCHANGED otherVars

\* the Close File button, line 260
closeFile ==
    /\ dbLoaded
    /\ dbLoaded' = FALSE
    /\ UNCHANGED <<error, pendingFile, encryptionTypeState, showKeyModal,
                   isDecrypting, dbInstance, submits, selects>>
    /\ UNCHANGED otherVars

AppInit ==
    /\ NoDecode
    /\ KeyIdle
    /\ DetectIdle
    /\ inThread = NotCalled
    /\ AppIdle

AppNext ==
    \/ \E f \in FileIds : processFile(f)
    \/ \E i \in DOMAIN selects : ProcessFileRead(i)
    \/ \E i \in DOMAIN selects : ProcessFileLoaded(i)
    \/ \E k \in KeyIds : handleKeySubmit(k)
    \/ \E i \in DOMAIN submits : KeySubmitExtracted(i)
    \/ \E i \in DOMAIN submits : KeySubmitDecoded(i)
    \/ \E i \in DOMAIN submits : KeySubmitLoaded(i)
    \/ cancelKeyEntry
    \/ closeFile

AppSpec == AppInit /\ [][AppNext]_vars

(***************************************************************************)
(* Properties.                                                             *)
(***************************************************************************)
\* bytes [a, b) of a buffer, for 0 <= a <= b <= Len(view)
Bytes(view, a, b) == [i \in 1..(b - a) |-> view[a + i]]

Terminal == {"complete", "error"}
TerminalCount == Cardinality({i \in DOMAIN posted : posted[i].type \in Terminal})
LastPosted == posted[Len(posted)]

\* the crypt15 branch has parsed the container
Parsed ==
    /\ encryptionType = "crypt15"
    /\ pc \in {"decrypt", "inflate"} \/ decipher # "none"

\* C1: crypt15: when the cipher's tag verification fails, the worker posts
\* the authentication error as its last message and never a 'complete', and
\* the promise is not resolved: once the message is delivered it is rejected
\* with that error.
C1_AuthFailureNoOutput ==
    (encryptionType = "crypt15" /\ decipher = "mismatch") =>
        /\ \A i \in DOMAIN posted : posted[i].type # "complete"
        /\ LastPosted = Error(AuthFailedMsg)
        /\ promise # "resolved"
        /\ worker = "terminated" => (promise = "rejected" /\ result = AuthFailedMsg)

C1_Witness ==
    /\ encryptionType = "crypt15" /\ shape.tamper = "tag"
    /\ decipher = "mismatch" /\ promise = "rejected"

\* C2: crypt15: inflate is only run after finish() returned true; a decode
\* whose tag check failed posts neither the decompression progress nor the
\* decompression error, and a container with a tampered ciphertext byte that
\* reaches tag verification fails it and ends with the authentication error.
C2_NoInflateBeforeAuth ==
    encryptionType = "crypt15" =>
        /\ inflate # "none" => decipher = "ok"
        /\ decipher = "mismatch" =>
              \A i \in DOMAIN posted :
                  /\ posted[i] # Progress("Decompressing Zlib...")
                  /\ posted[i] # Error(DecompressFailedMsg)
        /\ (shape.tamper = "ct" /\ decipher # "none") =>
              (decipher = "mismatch" /\ LastPosted = Error(AuthFailedMsg))

C2_Witness ==
    /\ encryptionType = "crypt15" /\ shape.tamper = "ct"
    /\ rawKeyBytes = Defined(KeyA)
    /\ promise = "rejected" /\ result = AuthFailedMsg /\ inflate = "none"

\* the buffer a 'complete' message must carry: the whole inflated output,
\* or for a legacy container that does not inflate the whole decrypted bytes
WholeOutput == IF inflate = "ok" THEN Inflate(arr) ELSE arr

C3_Safety ==
    /\ TerminalCount <= 1
    /\ \A i \in DOMAIN posted : posted[i].type \in Terminal => i = Len(posted)
    /\ pc = "done" => TerminalCount = 1
    /\ \A i \in DOMAIN posted :
          posted[i].type = "complete" => posted[i].buffer = WholeOutput
    /\ settles <= 1
    /\ settles = 1 <=> promise # "pending"
    /\ settles = 1 <=> worker = "terminated"
    /\ promise = "resolved" => result = WholeOutput

\* no step of the worker or of the wrapper can be taken
AtRest ==
    ~(CanCall \/ CanStart \/ CanStep("parse") \/ CanStep("decrypt")
        \/ CanStep("inflate") \/ CanDeliver)

\* C3: every decode ends with exactly one terminal outcome: the worker posts
\* at most one terminal message, as its last message, and exactly one when
\* its handler has returned; a 'complete' carries the whole final buffer; the
\* wrapper settles the promise at most once and terminates the worker then;
\* and the decode can only come to rest in a state where the promise has
\* been settled once and the worker terminated.
C3_ExactlyOneOutcome ==
    /\ C3_Safety
    /\ AtRest =>
          (settles = 1 /\ promise # "pending" /\ worker = "terminated")

C3_Witness ==
    /\ promise = "rejected" /\ worker = "terminated" /\ settles = 1
    /\ pc = "done" /\ TerminalCount = 1

\* a container shorter than the offsets its format requires
TooShort(type, view) ==
    IF type = "crypt15"
    THEN \/ Len(view) < 2
         \/ Len(view) < 1 + (IF view[2] = 1 THEN 1 ELSE 0) + view[1] + 32
    ELSE Len(view) < CRYPT_CONFIG[type].dbStartOffset
                     + (IF type = "crypt12" THEN 20 ELSE 0)

\* C4: a container shorter than the offsets its format requires never
\* reaches the cipher, and its decode ends with the error TruncatedContainer.
C4_TruncatedContainer ==
    (TooShort(encryptionType, fileBuffer) /\ rawKeyBytes.defined) =>
        /\ decipher = "none"
        /\ pc = "done" => LastPosted = Error("TruncatedContainer")

\* C5 (as amended): crypt15, container of length n with header end h and
\* n >= h + 32: the ciphertext handed to the cipher is bytes [h, n-32) and
\* the tag handed to the cipher is bytes [n-32, n-16); the last 16 bytes
\* [n-16, n) are neither ciphertext nor tag.
C5_TrailerGeometry ==
    LET n == Len(fileBuffer)
        h == hdr.protobufEnd
    IN  (encryptionType = "crypt15" /\ decipher # "none" /\ n >= h + 32) =>
            /\ ciphertext = Bytes(fileBuffer, h, n - 32)
            /\ tag = TagOf(Bytes(fileBuffer, n - 32, n - 16))

C5_Witness ==
    /\ encryptionType = "crypt15" /\ decipher = "ok" /\ shape.whole
    /\ tag.bytes # Bytes(fileBuffer, Len(fileBuffer) - 16, Len(fileBuffer))

\* C5 (as claimed): the tag handed to the cipher is the last 16 bytes
\* [n-16, n) and bytes [n-32, n-16) are not used.
C5_TagIsLast16 ==
    LET n == Len(fileBuffer)
        h == hdr.protobufEnd
    IN  (encryptionType = "crypt15" /\ decipher # "none" /\ n >= h + 32) =>
            /\ ciphertext = Bytes(fileBuffer, h, n - 32)
            /\ tag = TagOf(Bytes(fileBuffer, n - 16, n))

\* C6: crypt15, L = byte 0: the header body is bytes [1, 1+L) when byte 1 is
\* not 1 and bytes [2, 2+L) when it is 1, and the ciphertext starts where
\* that range ends (stated for containers that hold header and trailer).
C6_HeaderLocation ==
    Parsed =>
        LET n     == Len(fileBuffer)
            L     == fileBuffer[1]
            start == IF fileBuffer[2] = 1 THEN 2 ELSE 1
        IN  n >= start + L + 32 =>
                /\ hdr.protobufBuffer = Bytes(fileBuffer, start, start + L)
                /\ ciphertext = Bytes(fileBuffer, start + L, n - 32)

C6_Witness ==
    /\ Parsed /\ fileBuffer[2] # 1 /\ decipher = "ok"
    /\ hdr.protobufStart = 1 /\ Len(hdr.protobufBuffer) = fileBuffer[1]

C8_SkipUnknownSub ==
    (Parsed /\ shape.whole /\ shape.hasIV /\ shape.subWires # {}) =>
        iv = WriterIV

\* bytes [8, 24) of a buffer, as far as the buffer reaches
FallbackBytes(view) ==
    [i \in 1..(Min(24, Len(view)) - Min(8, Len(view))) |-> view[8 + i]]

\* C9: crypt15: when the walk ended without a 16-byte field-3 / sub-field-1
\* value, the IV handed to the cipher is bytes [8, 24) of the container;
\* when it found one, the IV is the found value and not those bytes.
C9_IvFallback ==
    Parsed =>
        /\ ~hdr.foundIV.some => iv = FallbackBytes(fileBuffer)
        /\ hdr.foundIV.some => iv = hdr.foundIV.bytes
        /\ (shape.whole /\ ~shape.hasIV) =>
              (~hdr.foundIV.some /\ iv = Bytes(fileBuffer, 8, 24))

C9_Witness ==
    /\ Parsed /\ ~hdr.foundIV.some /\ shape.whole /\ ~shape.hasIV
    /\ iv = Bytes(fileBuffer, 8, 24) /\ iv # WriterIV /\ decipher = "ok"

\* C10: whenever the cipher is reached, the IV handed to it is 16 bytes long.
C10_IvLength16 ==
    decipher # "none" => Len(iv) = 16

\* the walk of a field-3 payload reads or steps past the payload end
RECURSIVE SubPastEnd(_, _, _)
SubPastEnd(payload, off, fuel) ==
    IF fuel = 0 \/ ~(off < Len(payload)) THEN FALSE
    ELSE LET t == VarintLoop(payload, off, 0, {}) IN
         IF ~t.ok THEN TRUE
         ELSE IF WireOf(t.bits) # 2 THEN FALSE
         ELSE LET l == VarintLoop(payload, t.off, 0, {}) IN
              IF ~l.ok THEN TRUE
              ELSE IF l.off + ToInt32(l.bits) > Len(payload) THEN TRUE
              ELSE SubPastEnd(payload, l.off + ToInt32(l.bits), fuel - 1)

\* the walk of a header reads or steps past the header end: a tag, a varint
\* value, a length, a length-delimited payload or a fixed-width value
\* extends beyond it
RECURSIVE TopPastEnd(_, _, _)
TopPastEnd(buf, off, fuel) ==
    IF fuel = 0 \/ ~(off < Len(buf)) THEN FALSE
    ELSE LET t == VarintLoop(buf, off, 0, {}) IN
         IF ~t.ok THEN TRUE
         ELSE LET w == WireOf(t.bits) IN
              CASE w = 0 ->
                     LET k == SkipVarint(buf, t.off) IN
                     IF ~k.ok THEN TRUE ELSE TopPastEnd(buf, k.off, fuel - 1)
                [] w = 1 ->
                     IF t.off + 8 > Len(buf) THEN TRUE
                     ELSE TopPastEnd(buf, t.off + 8, fuel - 1)
                [] w = 5 ->
                     IF t.off + 4 > Len(buf) THEN TRUE
                     ELSE TopPastEnd(buf, t.off + 4, fuel - 1)
                [] w = 2 ->
                     LET l == VarintLoop(buf, t.off, 0, {}) IN
                     IF ~l.ok THEN TRUE
                     ELSE LET len == ToInt32(l.bits) IN
                          IF len < 0 \/ l.off + len > Len(buf) THEN TRUE
                          ELSE \/ /\ FieldOf(t.bits) = 3
                                  /\ SubPastEnd(SubSeq(buf, l.off + 1, l.off + len),
                                                0, fuel)
                               \/ TopPastEnd(buf, l.off + len, fuel - 1)
                [] OTHER -> FALSE

\* C11: when the walk over the crypt15 header runs past the header end, the
\* cipher is never reached and the decode ends with the single terminal
\* error MalformedHeader.
C11_MalformedHeader ==
    (Parsed /\ TopPastEnd(hdr.protobufBuffer, 0, WalkFuel)) =>
        /\ decipher = "none"
        /\ pc = "done" => LastPosted = Error("MalformedHeader")


(***************************************************************************)
(* The key normalizer, under KeySpec.                                      *)
(***************************************************************************)
Extracted == keyResult # KeyPending

StartsWithMagic(buf) == Len(buf) >= 4 /\ Bytes(buf, 0, 4) = <<172, 237, 0, 5>>

\* the offsets at which the four bytes 0, 0, 0, 32 occur
MarkerOffsets(buf) ==
    {i \in 0..(Len(buf) - 4) : Bytes(buf, i, i + 4) = <<0, 0, 0, 32>>}

Least(S) == CHOOSE i \in S : \A j \in S : i <= j

\* C12: a key file of exactly 32 bytes is returned unchanged as the raw key,
\* whatever its content.
C12_RawKeyIdentity ==
    (Extracted /\ Len(keyFileBuffer) = 32) => keyResult = KeyOk(keyFileBuffer)

C12_Witness ==
    /\ Extracted
    /\ Len(keyFileBuffer) = 32
    /\ StartsWithMagic(keyFileBuffer)
    /\ keyResult.ok

\* C13: a key file of exactly 158 bytes yields its bytes 126..157 as the raw
\* key, whatever the first 126 bytes are.
C13_KeystoreOffset ==
    (Extracted /\ Len(keyFileBuffer) = 158) =>
        keyResult = KeyOk(Bytes(keyFileBuffer, 126, 158))

C13_Witness ==
    /\ Extracted
    /\ Len(keyFileBuffer) = 158
    /\ StartsWithMagic(keyFileBuffer)
    /\ MarkerOffsets(keyFileBuffer) # {}
    /\ keyResult.ok

LowerHexDigit(v) == IF v < 10 THEN 48 + v ELSE 87 + v

\* the lower-case hex encoding of a byte sequence
ToHex(bytes) ==
    [i \in 1..(2 * Len(bytes)) |->
        IF i % 2 = 1 THEN LowerHexDigit(bytes[(i + 1) \div 2] \div 16)
        ELSE LowerHexDigit(bytes[i \div 2] % 16)]

ToLowerCase(text) ==
    [i \in 1..Len(text) |->
        IF text[i] \in 65..90 THEN text[i] + 32 ELSE text[i]]

IsHex64(buf) ==
    /\ Len(buf) = 64
    /\ \A i \in 1..64 : buf[i] \in (48..57) \cup (65..70) \cup (97..102)

\* C14: a string of 64 hex digits yields 32 bytes whose hex encoding is the
\* string in lower case.
C14_HexRoundTrip ==
    (Extracted /\ IsHex64(keyFileBuffer)) =>
        /\ keyResult.ok
        /\ Len(keyResult.raw) = 32
        /\ ToHex(keyResult.raw) = ToLowerCase(keyFileBuffer)

C14_Witness ==
    /\ Extracted
    /\ IsHex64(keyFileBuffer)
    /\ \E i \in 1..64 : keyFileBuffer[i] \in 65..70
    /\ \E i \in 1..64 : keyFileBuffer[i] \in 97..102
    /\ keyResult.ok

\* a serialized object that is neither a raw key nor a keystore file
SerializedCase ==
    /\ Extracted
    /\ StartsWithMagic(keyFileBuffer)
    /\ Len(keyFileBuffer) \notin {32, 158}

\* C15 as stated: in a serialized object that is not 59 bytes long the key is
\* the 32 bytes after the first marker anywhere in the buffer, and the last
\* 32 bytes only when the marker occurs nowhere.
C15_MarkerAnywhere ==
    SerializedCase =>
        LET n == Len(keyFileBuffer)
            m == MarkerOffsets(keyFileBuffer)
        IN  IF n = 59 THEN keyResult = KeyOk(Bytes(keyFileBuffer, 27, 59))
            ELSE IF m # {}
            THEN /\ keyResult.ok
                 /\ keyResult.raw =
                        Slice(keyFileBuffer, Least(m) + 4, Least(m) + 36)
            ELSE keyResult = KeyOk(Slice(keyFileBuffer, n - 32, n))

\* C15: in a serialized object that is not 59 bytes long the key is the 32
\* bytes after the first marker that starts at or before offset n - 36; when
\* there is none the key is the last 32 bytes if n >= 32, and extraction
\* fails if n < 32.
C15_MarkerWithRoom ==
    SerializedCase =>
        LET n == Len(keyFileBuffer)
            m == {i \in MarkerOffsets(keyFileBuffer) : i <= n - 36}
        IN  IF n = 59 THEN keyResult = KeyOk(Bytes(keyFileBuffer, 27, 59))
            ELSE IF m # {}
            THEN keyResult =
                     KeyOk(Bytes(keyFileBuffer, Least(m) + 4, Least(m) + 36))
            ELSE IF n >= 32
            THEN keyResult = KeyOk(Bytes(keyFileBuffer, n - 32, n))
            ELSE ~keyResult.ok

\* a marker with fewer than 32 bytes after it is passed over
C15_Witness ==
    /\ SerializedCase
    /\ Len(keyFileBuffer) # 59
    /\ \E i \in MarkerOffsets(keyFileBuffer) : i > Len(keyFileBuffer) - 36
    /\ \E i \in MarkerOffsets(keyFileBuffer) : i <= Len(keyFileBuffer) - 36
    /\ keyResult.ok

\* C16: a failure of the normalizer is KeyTooShort for unrecognized material
\* under 32 bytes and UnrecognizedKeyFormat for other unrecognized material.
C16_TypedFailures ==
    (Extracted /\ ~keyResult.ok) =>
        keyResult.error = IF Len(keyFileBuffer) < 32 THEN "KeyTooShort"
                          ELSE "UnrecognizedKeyFormat"

\* C17: extractKey returns a raw key of exactly 32 bytes or fails with its
\* own error; no other length and no out-of-range read comes out of it.
C17_KeyIs32OrError ==
    Extracted =>
        \/ keyResult.ok /\ Len(keyResult.raw) = 32
        \/ ~keyResult.ok /\ keyResult.raw = << >>
             /\ keyResult.error = "Failed to parse key file"

C17_Witness ==
    /\ Extracted
    /\ StartsWithMagic(keyFileBuffer)
    /\ Len(keyFileBuffer) > 4
    /\ Len(keyFileBuffer) < 32
    /\ ~keyResult.ok


(***************************************************************************)
(* Key derivation, cipher key and legacy geometry, under Spec.             *)
(***************************************************************************)
\* the key preparation has run and has set the cipher key
KeysPrepared == workingKeyBytes # << >>

Zero32 == [i \in 1..32 |-> 0]

BackupEncryption01 ==
    <<98, 97, 99, 107, 117, 112, 32>>
    \o <<101, 110, 99, 114, 121, 112, 116, 105, 111, 110>> \o <<1>>

\* C18: the key derived for a crypt15 container is
\* KeyedHash(KeyedHash(32 zero bytes, root key), "backup encryption" 0x01),
\* a function of the root key alone, and 32 bytes long.
C18_DerivedKey ==
    (encryptionType = "crypt15" /\ KeysPrepared) =>
        /\ rawKeyBytes.defined
        /\ workingKeyBytes =
               HmacSha256(HmacSha256(Zero32, rawKeyBytes.bytes),
                          BackupEncryption01)
        /\ Len(workingKeyBytes) = 32

C18_Witness ==
    /\ encryptionType = "crypt15"
    /\ KeysPrepared
    /\ rawKeyBytes = Defined(KeyB)
    /\ pc = "done"

\* C19: the cipher key is the derived key exactly for crypt15; for crypt12
\* and crypt14 it is the root key itself, which the cipher is run with.
C19_CipherKeyChoice ==
    KeysPrepared =>
        /\ rawKeyBytes.defined
        /\ (workingKeyBytes = deriveCrypt15Key(rawKeyBytes.bytes))
               <=> (encryptionType = "crypt15")
        /\ encryptionType # "crypt15" => workingKeyBytes = rawKeyBytes.bytes
        /\ decipher \in {"ok", "unchecked"} =>
               arr = GcmDecrypt(IF encryptionType = "crypt15"
                                THEN deriveCrypt15Key(rawKeyBytes.bytes)
                                ELSE rawKeyBytes.bytes, iv, ciphertext)

C19_Witness ==
    /\ encryptionType = "crypt14"
    /\ KeysPrepared
    /\ decipher = "unchecked"
    /\ promise = "resolved"

\* the bytes of view at the offsets a .. b-1 that exist
InRange(view, a, b) ==
    [i \in 1..Max(Min(b, Len(view)) - a, 0) |-> view[a + i]]

\* C20: once the legacy cipher is set up, crypt12 has IV = bytes [51, 67) and
\* ciphertext = bytes [67, n-20), crypt14 has IV = bytes [67, 83) and
\* ciphertext = bytes [190, n), and no tag is given to the cipher.
C20_LegacyGeometry ==
    (encryptionType # "crypt15" /\ decipher # "none") =>
        LET n == Len(fileBuffer) IN
        /\ encryptionType = "crypt12" =>
               /\ iv = InRange(fileBuffer, 51, 67)
               /\ ciphertext = InRange(fileBuffer, 67, n - 20)
        /\ encryptionType = "crypt14" =>
               /\ iv = InRange(fileBuffer, 67, 83)
               /\ ciphertext = InRange(fileBuffer, 190, n)
        /\ ~tag.supplied

C20_Witness ==
    /\ encryptionType = "crypt12"
    /\ decipher = "unchecked"
    /\ Len(iv) = 16
    /\ Len(ciphertext) > 0
    /\ Len(fileBuffer) = 67 + Len(ciphertext) + 20


(***************************************************************************)
(* Decompression and progress, under Spec.                                 *)
(***************************************************************************)
PostedTypes == {posted[i].type : i \in 1..Len(posted)}

\* C21: crypt15, tag verified, inflate fails: the decode ends with the
\* decompression error and no buffer is ever posted or resolved.
C21_DecompressFailureFatal ==
    (encryptionType = "crypt15" /\ inflate = "failed") =>
        /\ decipher = "ok"
        /\ LastPosted = Error("Decompression failed (Invalid Zlib data)")
        /\ "complete" \notin PostedTypes
        /\ promise # "resolved"
        /\ promise = "rejected" =>
               result = "Decompression failed (Invalid Zlib data)"

C21_Witness ==
    /\ encryptionType = "crypt15"
    /\ decipher = "ok"
    /\ inflate = "failed"
    /\ arr # << >>
    /\ promise = "rejected"

\* C22: crypt12 and crypt14: when inflate fails the decode completes with
\* the decrypted bytes themselves, and when it succeeds with the inflated
\* bytes.
C22_LegacyRawFallback ==
    (encryptionType # "crypt15" /\ inflate # "none") =>
        LET decrypted == GcmDecrypt(workingKeyBytes, iv, ciphertext)
            output == IF inflate = "failed" THEN decrypted
                      ELSE Inflate(decrypted)
        IN  /\ inflate = "failed" <=> ~InflateOk(decrypted)
            /\ LastPosted = Complete(output)
            /\ "error" \notin PostedTypes
            /\ promise # "rejected"
            /\ promise = "resolved" => result = output

C22_Witness ==
    /\ encryptionType = "crypt12"
    /\ inflate = "failed"
    /\ promise = "resolved"
    /\ result # << >>
    /\ result = GcmDecrypt(workingKeyBytes, iv, ciphertext)


IsProgress(m) == m.type = "progress"

\* the statuses of the progress messages posted so far, in order
PostedStatuses ==
    LET ps == SelectSeq(posted, IsProgress)
    IN  [i \in 1..Len(ps) |-> ps[i].status]

\* the four phases of one decode, by format
Phases ==
    IF encryptionType = "crypt15"
    THEN <<"Deriving keys...", "Parsing file structure...",
           "Decrypting AES-GCM...", "Decompressing Zlib...">>
    ELSE <<"Deriving keys...", "Parsing file structure...",
           "Decrypting Legacy Format...", "Decompressing (Legacy)...">>

IsPrefix(a, b) == Len(a) <= Len(b) /\ a = SubSeq(b, 1, Len(a))

\* C23: the progress messages of one decode are an initial part of key
\* derivation, parsing, decryption, decompression, each at most once; a phase
\* is announced when the handler enters it; all four precede a 'complete';
\* and the wrapper reports them in that order.
C23_ProgressOrder ==
    /\ IsPrefix(PostedStatuses, Phases)
    /\ IsPrefix(statuses, PostedStatuses)
    /\ pc = "idle" => PostedStatuses = << >>
    /\ pc = "parse" => Len(PostedStatuses) = 1
    /\ pc = "decrypt" => Len(PostedStatuses) = 2
    /\ pc = "inflate" => Len(PostedStatuses) = 3
    /\ inflate # "none" => Len(PostedStatuses) = 4
    /\ \A i \in 1..Len(posted) :
          posted[i].type = "complete" =>
              /\ i = 5
              /\ \A j \in 1..4 : posted[j] = Progress(Phases[j])
    /\ promise = "resolved" => statuses = Phases

C23_Witness ==
    /\ encryptionType = "crypt15"
    /\ promise = "resolved"
    /\ statuses = <<"Deriving keys...", "Parsing file structure...",
                    "Decrypting AES-GCM...", "Decompressing Zlib...">>
    /\ Len(posted) = 5


(***************************************************************************)
(* The format classifier, under DetectSpec.                                *)
(***************************************************************************)
\* the characters of name from position Len(name) - 7 on
Last8(name) == [i \in 1..8 |-> name[Len(name) - 8 + i]]

\* the format whose extension a supplied, non-empty name ends with
ExtensionOf(name) ==
    IF ~name.defined \/ Len(name.text) < 8 THEN "null"
    ELSE LET e == Last8(name.text) IN
         IF e[1] = "." /\ SubSeq(e, 2, 6) = <<"c", "r", "y", "p", "t">>
                /\ e[7] = "1" /\ e[8] \in {"2", "4", "5"}
         THEN "crypt1" \o e[8]
         ELSE "null"

\* C24: detectEncryptionType returns the format whose extension the supplied
\* file name ends with, and null in every other case whatever the bytes are;
\* the call leaves everything but its result unchanged.
C24_ClassifierByExtension ==
    /\ detected # "pending" => detected = ExtensionOf(detectName)
    /\ detected \in {"pending", "null", "crypt12", "crypt14", "crypt15"}

C24_Witness ==
    /\ detected = "null"
    /\ Len(detectBuffer) > 67
    /\ detectBuffer[1] = 135 /\ detectBuffer[2] = 1
    /\ ~detectName.defined


\* C27: the header walk of a crypt15 container always leaves its loops, so
\* the handler goes on to its terminal message.
C27_WalkTerminates == pc # "hung"


(***************************************************************************)
(* The two copies of the decode, under EquivSpec.                          *)
(***************************************************************************)
\* what the worker handler ended with
WorkerTerminal == IF pc = "hung" THEN Hung ELSE LastPosted

HandlerOver == pc \in {"done", "hung"}

\* the library gave both copies the same answer
SameLibrary == decipher # "none" => (inThread.startThrows <=> decipher = "threw")

\* C30: on the same container, format and supplied raw key the worker
\* pipeline and the in-thread decryptDatabase end alike: both with the same
\* output bytes, both with an error, or neither returns.
C30_CopiesAgree ==
    /\ HandlerOver =>
          WorkerTerminal = WorkerRun(encryptionType, fileBuffer, rawKeyBytes,
                                     decipher = "threw")
    /\ (HandlerOver /\ inThread.called /\ rawKeyBytes.defined /\ SameLibrary) =>
          /\ inThread.out.type = WorkerTerminal.type
          /\ inThread.out.buffer = WorkerTerminal.buffer
          /\ inThread.out.message = WorkerTerminal.message
          /\ promise = "resolved" =>
                (inThread.out.type = "complete" /\ result = inThread.out.buffer)
          /\ (promise = "rejected" /\ result # "Worker Error") =>
                (inThread.out.type = "error" /\ result = inThread.out.message)

C30_Witness ==
    /\ encryptionType = "crypt15"
    /\ inThread.called
    /\ inThread.out.type = "complete"
    /\ inThread.out.buffer # << >>
    /\ promise = "resolved"
    /\ result = inThread.out.buffer

(***************************************************************************)
(* The App.                                                                *)
(***************************************************************************)
\* the calls of handleKeySubmit that have not returned
InFlight == {i \in DOMAIN submits : submits[i].at # "over"}

\* call i of processFile leaves its await of file.arrayBuffer() in this step
Classifies(i) == selects[i].at = "read" /\ selects'[i].at # "read"

\* C25: processFile sends the bytes of a file the classifier does not
\* recognize straight to the database loader, opening no key prompt and
\* starting no key submission; a recognized file is kept for the key prompt
\* and is loaded as a database only by a key submission whose decode
\* succeeded.
C25_OnlyRecognizedNeedKey ==
    /\ [](/\ \A i \in DOMAIN selects :
                selects[i].at = "load" => Detected[selects[i].file] = "null"
          /\ \A i \in InFlight :
                /\ Detected[submits[i].file] # "null"
                /\ submits[i].type = Detected[submits[i].file]
          /\ showKeyModal =>
                pendingFile # "null" /\ Detected[pendingFile] # "null"
          /\ dbInstance.via = "direct" => Detected[dbInstance.file] = "null"
          /\ dbInstance.via = "decode" =>
                /\ Detected[dbInstance.file] # "null"
                /\ \E i \in DOMAIN submits : submits[i] = SubmitOver(TRUE))
    /\ [][\A i \in DOMAIN selects :
            Classifies(i) =>
               IF Detected[selects[i].file] = "null"
               THEN /\ selects'[i].at = "load"
                    /\ UNCHANGED <<showKeyModal, pendingFile,
                                   encryptionTypeState, submits>>
               ELSE /\ selects'[i] = SelectOver
                    /\ showKeyModal'
                    /\ pendingFile' = selects[i].file
                    /\ UNCHANGED <<dbLoaded, dbInstance>>]_vars

\* an encrypted container under a name without a known extension was loaded
\* directly, and no key was ever asked for
C25_Witness ==
    /\ dbInstance = [file |-> "bak", via |-> "direct"]
    /\ dbLoaded
    /\ submits = << >>
    /\ ~showKeyModal

\* call i of handleKeySubmit returns through its catch in this step
Fails(i) == i \in InFlight /\ submits'[i] = SubmitOver(FALSE)

\* the step is a call of processFile or of cancelKeyEntry
SelectsFile == Len(selects') = Len(selects) + 1
Cancels ==
    /\ showKeyModal /\ ~showKeyModal'
    /\ pendingFile' = "null"
    /\ UNCHANGED <<dbLoaded, error, isDecrypting, dbInstance, submits, selects>>

\* C26: a failure inside handleKeySubmit leaves encryptionType, pendingFile
\* and the open modal as they are, sets error and clears isDecrypting, so
\* that a further key can be submitted; the classified format is reset only
\* by cancelKeyEntry or by a new processFile.
C26_FailureKeepsKeyEntry ==
    [][/\ \A i \in DOMAIN submits :
             Fails(i) =>
                /\ UNCHANGED <<encryptionTypeState, pendingFile, showKeyModal,
                               dbLoaded>>
                /\ error' # "null"
                /\ ~isDecrypting'
       /\ (encryptionTypeState # "null" /\ encryptionTypeState' = "null") =>
             (SelectsFile \/ Cancels)]_vars

\* after a failed submission the modal is still open with the error set,
\* and a second key has been submitted for the same file
C26_Witness ==
    /\ Len(submits) = 2
    /\ submits[1] = SubmitOver(FALSE)
    /\ submits[2].at = "decode"
    /\ submits[2].file = pendingFile
    /\ submits[2].type = encryptionTypeState
    /\ showKeyModal

\* C28: at most one call of handleKeySubmit is in flight, and isDecrypting
\* is true exactly while one is.
C28_OneDecodeInFlight ==
    /\ Cardinality(InFlight) <= 1
    /\ isDecrypting <=> InFlight # {}

\* call i of handleKeySubmit returns in this step, after the key entry it
\* was started from was cancelled or replaced
StaleReturn(i) ==
    /\ i \in InFlight
    /\ submits'[i].at = "over"
    /\ pendingFile # submits[i].file

\* C29: the completion of a decode whose key entry was cancelled or
\* replaced loads nothing and leaves dbLoaded, pendingFile, showKeyModal and
\* encryptionType as they are.
C29_StaleCompletionIgnored ==
    [][\A i \in DOMAIN submits :
          StaleReturn(i) =>
             UNCHANGED <<dbLoaded, dbInstance, pendingFile, showKeyModal,
                         encryptionTypeState>>]_vars

====
